---- MODULE Spec2Model ----
(***************************************************************************)
(* Quiz session of speak-learn-english: QuizPage.tsx (React component      *)
(* state, the closures its handlers and timers capture, the speech         *)
(* recogniser callbacks), LevelSelectionPage and the progress table.       *)
(***************************************************************************)
EXTENDS Integers, Sequences, FiniteSets, TLC

(* ---------------------------------------------------------------------- *)
(* Bounds and program constants                                            *)
(* ---------------------------------------------------------------------- *)

\* number of rows of table levels (the seed data has 5; three are modelled)
NumLevels == 3

\* number of questions of the longest modelled level
MaxQuestions == 4

\* inputs of the user in one behaviour: quiz pages opened, option buttons
\* clicked and presses of the speech button
MaxInputs == 5

\* timer callbacks that run while one recognition is listening
MaxListenCallbacks == 1

\* QuizPage.tsx:161  if (newMistakes >= 3)
MistakeLimit == 3

\* QuizPage.tsx:155  setTimeout(() => nextQuestion(), 2000)
CorrectDelayMs == 2000

\* QuizPage.tsx:163  setTimeout(() => endQuiz(true), 2000)
FailDelayMs == 2000

\* QuizPage.tsx:165  setTimeout(() => nextQuestion(), 2500)
WrongDelayMs == 2500

\* QuizPage.tsx:213  setTimeout(() => navigate('/levels'), 2000)
NavDelayMs == 2000

\* QuizPage.tsx:413  bestMatch.score >= 0.7, kept as the fraction 7/10
ThresholdNum == 7

ThresholdDen == 10

\* granularity of the clock: the largest step that divides every delay
TickMs == WrongDelayMs - CorrectDelayMs

\* null, and a present value x, of a nullable state
NULL == <<>>

Some(x) == <<x>>

(* ---------------------------------------------------------------------- *)
(* Strings are sequences of one-character strings                          *)
(* ---------------------------------------------------------------------- *)

UpperChars == <<"B", "C", "M">>

LowerChars == <<"b", "c", "m">>

\* String.prototype.toLowerCase on one character
LowerChar(c) ==
    IF \E i \in 1..Len(UpperChars) : UpperChars[i] = c
    THEN LowerChars[CHOOSE i \in 1..Len(UpperChars) : UpperChars[i] = c]
    ELSE c

toLowerCase(s) == [i \in 1..Len(s) |-> LowerChar(s[i])]

IsSpace(c) == c = " "

RECURSIVE TrimStart(_)
TrimStart(s) ==
    IF s # <<>> /\ IsSpace(Head(s)) THEN TrimStart(Tail(s)) ELSE s

RECURSIVE TrimEnd(_)
TrimEnd(s) ==
    IF s # <<>> /\ IsSpace(s[Len(s)])
    THEN TrimEnd(SubSeq(s, 1, Len(s) - 1))
    ELSE s

\* String.prototype.trim
trim(s) == TrimEnd(TrimStart(s))

\* first.replace(/\s+/g, '')
RECURSIVE StripSpaces(_)
StripSpaces(s) ==
    IF s = <<>> THEN <<>>
    ELSE IF IsSpace(Head(s)) THEN StripSpaces(Tail(s))
    ELSE <<Head(s)>> \o StripSpaces(Tail(s))

Bigram(s, i) == <<s[i], s[i + 1]>>

\* number of positions j < i of s holding the same bigram as position i
EarlierSame(s, i) == Cardinality({j \in 1..(i - 1) : Bigram(s, j) = Bigram(s, i)})

\* occurrences of bigram b in s
CountIn(s, b) == Cardinality({j \in 1..(Len(s) - 1) : Bigram(s, j) = b})

\* the loop over second's bigrams: position i is counted while first still
\* has an unconsumed occurrence of that bigram
IntersectionSize(first, second) ==
    Cardinality({i \in 1..(Len(second) - 1) :
        EarlierSame(second, i) < CountIn(first, Bigram(second, i))})

\* compareTwoStrings of string-similarity, result as <<numerator, denominator>>
compareTwoStrings(a, b) ==
    LET first == StripSpaces(a)
        second == StripSpaces(b)
    IN  IF first = second THEN <<1, 1>>
        ELSE IF Len(first) < 2 \/ Len(second) < 2 THEN <<0, 1>>
        ELSE <<2 * IntersectionSize(first, second), Len(first) + Len(second) - 2>>

\* variant: similarity >= bestMatch.score, the last of equal options wins
FracAtLeast(x, y) == x[1] * y[2] >= y[1] * x[2]

\* x > y on fractions with positive denominators
FracGreater(x, y) == x[1] * y[2] > y[1] * x[2]

\* variant: a threshold of 0.9
AtLeastNineTenths(x) == x[1] * 10 >= 9 * x[2]

\* variant: a threshold of 0.5
AtLeastHalf(x) == x[1] * 2 >= x[2]

\* x >= 0.7
AtLeastThreshold(x) == x[1] * ThresholdDen >= ThresholdNum * x[2]

\* the for loop of findBestMatch: best is [text, score] so far
RECURSIVE BestMatchLoop(_, _, _)
BestMatchLoop(normalizedSpoken, options, best) ==
    IF options = <<>> THEN best
    ELSE LET option == Head(options)
             similarity == compareTwoStrings(normalizedSpoken, trim(toLowerCase(option)))
         IN  BestMatchLoop(normalizedSpoken, Tail(options),
                 IF FracGreater(similarity, best.score)
                 THEN [text |-> option, score |-> similarity]
                 ELSE best)

\* variant of findBestMatch: the closest option whatever its score
findClosestOption(spokenText, options) ==
    Some(BestMatchLoop(trim(toLowerCase(spokenText)), options,
                       [text |-> <<>>, score |-> <<0, 1>>]).text)

\* findBestMatch: Some(match), or NULL
findBestMatch(spokenText, options) ==
    LET bestMatch == BestMatchLoop(trim(toLowerCase(spokenText)), options,
                                   [text |-> <<>>, score |-> <<0, 1>>])
    IN  IF AtLeastThreshold(bestMatch.score) THEN Some(bestMatch.text) ELSE NULL

(* ---------------------------------------------------------------------- *)
(* Tables levels and questions (read-only for a quiz session)              *)
(* ---------------------------------------------------------------------- *)

Menu == <<"M", "e", "n", "u">>

Bill == <<"B", "i", "l", "l">>

Chef == <<"C", "h", "e", "f">>

\* rows of table levels, by level_number
Levels == 1..NumLevels

\* number of questions rows whose level_id is level l: a level of exactly
\* MistakeLimit questions, the longest level, and levels left without questions
QCount(l) == IF l = 1 THEN MistakeLimit ELSE IF l = 2 THEN MaxQuestions ELSE 0

\* the question at 0-based position i of a level: options and correct_answer
\* satisfy the table constraints options_length and correct_answer_in_options
QuestionRow(i) ==
    IF i % 2 = 0
    THEN [options |-> <<Menu, Bill>>, correct_answer |-> Menu]
    ELSE [options |-> <<Chef, Menu>>, correct_answer |-> Chef]

\* select * from questions where level_id = <level l>
QuestionsOf(l) == [k \in 1..QCount(l) |-> QuestionRow(k - 1)]

\* transcripts the recogniser can deliver: "menu", " Bill ", "chef", "may new"
Utterances ==
    { <<"m", "e", "n", "u">>,
      <<" ", "B", "i", "l", "l", " ">>,
      <<"c", "h", "e", "f">>,
      <<"m", "a", "y", " ", "n", "e", "w">> }

\* the option lists of the question rows
OptionLists == {QuestionRow(i).options : i \in 0..1}

\* findBestMatch(spokenText, options) for every transcript and option list
MatchResults ==
    [spokenText \in Utterances |->
        [options \in OptionLists |-> findBestMatch(spokenText, options)]]

(* ---------------------------------------------------------------------- *)
(* State                                                                   *)
(* ---------------------------------------------------------------------- *)

VARIABLES
    page,                  \* route shown: "levels" or "quiz"
    progress,              \* table progress of the signed-in user, by level_number
    progressView,          \* LevelSelectionPage state `progress` (fetched copy), NULL
                           \* while that page is not mounted
    levelNumber,           \* useParams().levelNumber of the mounted QuizPage
    currentQuestionIndex,  \* QuizPage state
    score,                 \* QuizPage state
    mistakes,              \* QuizPage state
    selectedOption,        \* QuizPage state, NULL or Some(option); isCorrect and
                           \* feedbackText are only displayed and are not modelled
    isListening,           \* QuizPage state
    speech,                \* the recogniser: its phase and the render its callbacks closed over
    timers,                \* pending setTimeout callbacks, in scheduling order
    toast,                 \* last toast of endQuiz, handleLevelClick or fetchQuizData
                           \* since the page was shown
    inputs,                \* history: inputs of the user so far
    nOk,                   \* history: correct answers evaluated in the mounted session
    nBad,                  \* history: wrong answers evaluated in the mounted session
    evalsHere,             \* history: answers evaluated since the question index last changed
    emitted,               \* history: endQuiz runs of the mounted session: the outcome,
                           \* the score sent, whether the storage accepted the update of
                           \* the level, and what became of the update of the next level
    heard,                 \* findBestMatch on its own: argument spokenText
    offered,               \* findBestMatch on its own: argument options
    matched,               \* findBestMatch on its own: whether it was called, and its result
    editor,                \* LevelEditPage: whether it is mounted, and its state `questions`
    questionsTable,        \* table questions: the rows of the level being edited
    authUsers,             \* table auth.users: the ids of the users
    userRoles,             \* table user_roles: rows <<user_id, role>>
    profiles,              \* table profiles: username by id
    dbLevels,              \* table levels: the level_number of its rows
    dbProgress,            \* table progress: the rows of all users
    refusedWrites          \* history: <<user, table>> of the writes the database refused

vars == <<page, progress, progressView, levelNumber, currentQuestionIndex, score,
          mistakes, selectedOption, isListening, speech, timers, toast,
          inputs, nOk, nBad, evalsHere, emitted, heard, offered, matched,
          editor, questionsTable, authUsers, userRoles, profiles, dbLevels,
          dbProgress, refusedWrites>>

\* the call of findBestMatch on its own
matchVars == <<heard, offered, matched>>

\* the administration pages and the tables only they write
dbVars == <<editor, questionsTable, authUsers, userRoles, profiles, dbLevels,
           dbProgress, refusedWrites>>

\* the tables of the users
authVars == <<authUsers, userRoles, profiles, dbLevels, dbProgress, refusedWrites>>

\* the history of the mounted session
hist == <<nOk, nBad, evalsHere, emitted>>

quizState == <<currentQuestionIndex, score, mistakes, selectedOption, isListening>>

\* the values a handler created by one render closes over; live is FALSE once
\* the component that rendered it is unmounted (its state setters do nothing)
Render(live, level, idx, sc, mis) ==
    [live |-> live, level |-> level, idx |-> idx, score |-> sc, mistakes |-> mis]

\* the latest render of the mounted QuizPage
CurrentRender == Render(TRUE, levelNumber, currentQuestionIndex, score, mistakes)

NoRender == Render(FALSE, 0, 0, 0, 0)

IdleSpeech == [st |-> "idle", env |-> NoRender, rem |-> 0]

\* LevelEditPage is not mounted; refused is history: the questions of the last
\* handleSaveLevel that a constraint of the table refused
ClosedEditor == [open |-> FALSE, questions |-> <<>>, refused |-> 0]

\* a row of the table questions; question_text and image_url are any
\* non-empty text
TableRow(id, question) ==
    [id |-> id, question_text |-> Menu, image_url |-> Menu,
     options |-> question.options, correct_answer |-> question.correct_answer]

\* the rows of the level being edited: one seeded question
SeededQuestions == <<TableRow(1, QuestionRow(0))>>

Root == <<"r", "o", "o", "t">>

\* the database after the migrations: the seeded levels, and one user whom
\* the owner of the database has made an administrator
AuthSeeded ==
    /\ authUsers = {"root"}
    /\ userRoles = {<<"root", "admin">>}
    /\ profiles = [id \in {"root"} |-> Root]
    /\ dbLevels = Levels
    /\ dbProgress = {}
    /\ refusedWrites = {}

\* handle_new_user: level 1 unlocked, the other levels locked, high_score 0
InitialProgress ==
    [l \in Levels |-> [status |-> IF l = 1 THEN "unlocked" ELSE "locked", high_score |-> 0]]

\* the rows after the user has answered every question of levels 1 and 2
\* correctly, one session each: endQuiz stored 'completed' with the score of
\* the render that scheduled the last timer, and unlocked levels 2 and 3
ReturningProgress ==
    [l \in Levels |->
        IF l = 1 THEN [status |-> "completed", high_score |-> QCount(1) - 1]
        ELSE IF l = 2 THEN [status |-> "completed", high_score |-> QCount(2) - 1]
        ELSE IF l = 3 THEN [status |-> "unlocked", high_score |-> 0]
        ELSE [status |-> "locked", high_score |-> 0]]

\* the user is on /levels, right after sign-up or after earlier sessions
Init ==
    /\ page = "levels"
    /\ progress \in {InitialProgress, ReturningProgress}
    /\ progressView = progress
    /\ levelNumber = 0
    /\ currentQuestionIndex = 0
    /\ score = 0
    /\ mistakes = 0
    /\ selectedOption = NULL
    /\ isListening = FALSE
    /\ speech = IdleSpeech
    /\ timers = <<>>
    /\ toast = "none"
    /\ inputs = 0
    /\ nOk = 0
    /\ nBad = 0
    /\ evalsHere = 0
    /\ emitted = <<>>
    /\ heard = <<>>
    /\ offered = <<>>
    /\ matched = [done |-> FALSE, result |-> NULL]
    /\ editor = ClosedEditor
    /\ questionsTable = SeededQuestions
    /\ AuthSeeded

(* ---------------------------------------------------------------------- *)
(* Pure parts of the handlers                                              *)
(* ---------------------------------------------------------------------- *)

\* questions[currentQuestionIndex] as seen by a render
QuestionOf(env) == QuestionsOf(env.level)[env.idx + 1]

\* checkAnswer: selectedAnswer === currentQuestion.correct_answer
IsRightAnswer(selectedAnswer, question) == selectedAnswer = question.correct_answer

\* checkAnswer: newMistakes >= 3
ReachedLimit(newMistakes) == newMistakes >= MistakeLimit

\* nextQuestion: currentQuestionIndex + 1 < questions.length
HasNextQuestion(idx, len) == idx + 1 < len

\* variant of FinalScore: the render's score whatever the outcome
FinalScoreOfRender(failedDueToMistakes, sc) == sc

\* endQuiz: failedDueToMistakes ? 0 : score
FinalScore(failedDueToMistakes, sc) == IF failedDueToMistakes THEN 0 ELSE sc

\* endQuiz: failedDueToMistakes ? 'unlocked' : 'completed'
FinalStatus(failedDueToMistakes) == IF failedDueToMistakes THEN "unlocked" ELSE "completed"

\* variant of UnlocksNext: the next level is updated whatever the outcome
UnlocksNextAlways(failedDueToMistakes) == TRUE

\* endQuiz: if (!failedDueToMistakes) { ...update level_number = nextLevel }
UnlocksNext(failedDueToMistakes) == ~failedDueToMistakes

\* update progress set <fields> where user_id = .. and level_number = l;
\* no row matches when the user has no record for l
UpdateProgress(table, l, status, high_score) ==
    IF l \in DOMAIN table
    THEN [table EXCEPT ![l] = [status |-> status, high_score |-> high_score]]
    ELSE table

\* update progress set status = 'unlocked' where .. level_number = l
UnlockLevel(table, l) ==
    IF l \in DOMAIN table
    THEN [table EXCEPT ![l].status = "unlocked"]
    ELSE table

\* the progress table after endQuiz; ok1 and ok2 tell whether the storage
\* accepts the first and the second update
ProgressAfterEndQuiz(table, level, failedDueToMistakes, sc, ok1, ok2) ==
    IF ~ok1 THEN table
    ELSE LET own == UpdateProgress(table, level, FinalStatus(failedDueToMistakes),
                                   FinalScore(failedDueToMistakes, sc))
         IN  IF UnlocksNext(failedDueToMistakes) /\ ok2
             THEN UnlockLevel(own, level + 1)
             ELSE own

(* ---------------------------------------------------------------------- *)
(* Timers                                                                  *)
(* ---------------------------------------------------------------------- *)

\* A pending setTimeout callback: its kind, the render that created it, its
\* delay, and whether it was scheduled within the current clock tick (fresh).
\* The sequence timers holds the pending callbacks in the order of their
\* deadlines, which is the order the event loop runs them in.

\* setTimeout(() => nextQuestion(), ms) scheduled by the render env
NextTimer(env, ms) == [kind |-> "next", ms |-> ms, fresh |-> TRUE, env |-> env]

\* setTimeout(() => endQuiz(true), 2000)
EndTimer(env) == [kind |-> "end", ms |-> FailDelayMs, fresh |-> TRUE, env |-> env]

\* setTimeout(() => navigate('/levels'), 2000)
NavTimer == [kind |-> "nav", ms |-> NavDelayMs, fresh |-> TRUE, env |-> NoRender]

\* the deadline of new is before the deadline of the pending timer old: no
\* two delays differ by more than TickMs, so old has the longer delay and was
\* scheduled within the current tick
DueBefore(new, old) == old.fresh /\ new.ms < old.ms

\* setTimeout: the position of the new callback among the pending ones
RECURSIVE Schedule(_, _)
Schedule(seq, new) ==
    IF seq # <<>> /\ DueBefore(new, seq[Len(seq)])
    THEN Schedule(SubSeq(seq, 1, Len(seq) - 1), new) \o <<seq[Len(seq)]>>
    ELSE Append(seq, new)

\* the timer checkAnswer schedules
AnswerTimer(env, correct) ==
    IF correct THEN NextTimer(env, CorrectDelayMs)
    ELSE IF ReachedLimit(env.mistakes + 1) THEN EndTimer(env)
    ELSE NextTimer(env, WrongDelayMs)

RemoveAt(seq, i) == SubSeq(seq, 1, i - 1) \o SubSeq(seq, i + 1, Len(seq))

\* the callback the event loop runs next: the one with the earliest deadline,
\* once its delay (several ticks) has passed; while a recognition is listening
\* at most MaxListenCallbacks callbacks run
IsDue(i) ==
    /\ i = 1
    /\ timers # <<>>
    /\ ~timers[1].fresh
    /\ speech.st = "listening" => speech.rem > 0

\* the recogniser after a timer callback has run
SpeechAfterCallback ==
    IF speech.st = "listening" THEN [speech EXCEPT !.rem = @ - 1] ELSE speech

\* callbacks of an unmounted component keep running, their setters do nothing
Detach(env) == [env EXCEPT !.live = FALSE]

\* a pending callback that, run for an unmounted component, only calls state
\* setters: () => nextQuestion() of a render that has a next question
OnlySetsState(timer) ==
    timer.kind = "next" /\ HasNextQuestion(timer.env.idx, QCount(timer.env.level))

\* what a pending callback of an unmounted component still reads of its
\* render: endQuiz(true) the level, endQuiz(false) the level and the score
DetachedEnv(timer) ==
    IF timer.kind = "end" THEN Render(FALSE, timer.env.level, 0, 0, 0)
    ELSE IF timer.kind = "next"
    THEN Render(FALSE, timer.env.level, timer.env.idx, timer.env.score, 0)
    ELSE timer.env

\* the pending callbacks after the component is unmounted; those without any
\* effect left are not tracked further
RECURSIVE DetachTimers(_)
DetachTimers(seq) ==
    IF seq = <<>> THEN <<>>
    ELSE IF OnlySetsState(Head(seq)) THEN DetachTimers(Tail(seq))
    ELSE <<[Head(seq) EXCEPT !.env = DetachedEnv(Head(seq))]>> \o DetachTimers(Tail(seq))

\* endQuiz is scheduled or has run for the mounted session
EndScheduled ==
    \E i \in 1..Len(timers) :
        /\ timers[i].env.live
        /\ \/ timers[i].kind = "end"
           \/ /\ timers[i].kind = "next"
              /\ ~HasNextQuestion(timers[i].env.idx, QCount(timers[i].env.level))

Terminal == page = "quiz" /\ (emitted # <<>> \/ EndScheduled)

(* ---------------------------------------------------------------------- *)
(* Handlers of QuizPage                                                    *)
(* ---------------------------------------------------------------------- *)

\* {currentQuestion && ...}: a question card is rendered
QuestionShown == page = "quiz" /\ currentQuestionIndex < QCount(levelNumber)

\* checkAnswer as created by render env
checkAnswer(env, selectedAnswer) ==
    LET correct == IsRightAnswer(selectedAnswer, QuestionOf(env))
    IN  /\ score' = IF env.live /\ correct THEN env.score + 1 ELSE score
        /\ mistakes' = IF env.live /\ ~correct THEN env.mistakes + 1 ELSE mistakes
        /\ timers' = Schedule(timers, AnswerTimer(env, correct))
        /\ nOk' = IF env.live /\ correct THEN nOk + 1 ELSE nOk
        /\ nBad' = IF env.live /\ ~correct THEN nBad + 1 ELSE nBad
        /\ evalsHere' = IF env.live THEN evalsHere + 1 ELSE evalsHere

\* onClick of an option button (disabled when selectedOption !== null)
ClickOption(option) ==
    /\ QuestionShown
    /\ selectedOption = NULL
    /\ inputs < MaxInputs
    /\ inputs' = inputs + 1
    /\ \E k \in 1..Len(QuestionOf(CurrentRender).options) :
           QuestionOf(CurrentRender).options[k] = option
    /\ selectedOption' = Some(option)
    /\ checkAnswer(CurrentRender, option)
    /\ UNCHANGED <<page, progress, progressView, levelNumber, currentQuestionIndex,
                   isListening, speech, toast, emitted>>
    /\ UNCHANGED matchVars
    /\ UNCHANGED dbVars

\* startListening, the onClick of the speech button
\* (disabled when isListening || selectedOption !== null)
startListening ==
    /\ QuestionShown
    /\ ~isListening
    /\ selectedOption = NULL
    /\ speech.st = "idle"
    /\ inputs < MaxInputs
    /\ inputs' = inputs + 1
    /\ isListening' = TRUE
    /\ speech' = [st |-> "listening", env |-> CurrentRender, rem |-> MaxListenCallbacks]
    /\ UNCHANGED <<page, progress, progressView, levelNumber, currentQuestionIndex,
                   score, mistakes, selectedOption, timers, toast,
                   nOk, nBad, evalsHere, emitted>>
    /\ UNCHANGED matchVars
    /\ UNCHANGED dbVars

\* recognition.onresult -> handleSpeechResult(spokenText), both of the render
\* in which startListening ran
handleSpeechResult(spokenText) ==
    /\ speech.st = "listening"
    /\ speech' = [speech EXCEPT !.st = "delivered", !.rem = 0]
    /\ LET env == speech.env
           matchResult == MatchResults[spokenText][QuestionOf(env).options]
       IN  IF matchResult = NULL
           THEN UNCHANGED <<selectedOption, score, mistakes, timers, nOk, nBad, evalsHere>>
           ELSE /\ selectedOption' = IF env.live THEN matchResult ELSE selectedOption
                /\ checkAnswer(env, matchResult[1])
    /\ UNCHANGED <<page, progress, progressView, levelNumber, currentQuestionIndex,
                   isListening, toast, inputs, emitted>>
    /\ UNCHANGED matchVars
    /\ UNCHANGED dbVars

\* recognition.onerror
SpeechError ==
    /\ speech.st = "listening"
    /\ speech' = [speech EXCEPT !.st = "delivered", !.rem = 0]
    /\ isListening' = IF speech.env.live THEN FALSE ELSE isListening
    /\ UNCHANGED <<page, progress, progressView, levelNumber, currentQuestionIndex,
                   score, mistakes, selectedOption, timers, toast, inputs, hist>>
    /\ UNCHANGED matchVars
    /\ UNCHANGED dbVars

\* recognition.onend
SpeechEnd ==
    /\ speech.st \in {"listening", "delivered"}
    /\ speech' = IdleSpeech
    /\ isListening' = IF speech.env.live THEN FALSE ELSE isListening
    /\ UNCHANGED <<page, progress, progressView, levelNumber, currentQuestionIndex,
                   score, mistakes, selectedOption, timers, toast, inputs, hist>>
    /\ UNCHANGED matchVars
    /\ UNCHANGED dbVars

\* endQuiz as created by render env, run with the pending timers rest
endQuiz(env, failedDueToMistakes, ok1, ok2, rest) ==
    /\ progress' = ProgressAfterEndQuiz(progress, env.level, failedDueToMistakes,
                                        env.score, ok1, ok2)
    /\ toast' = IF ~ok1 THEN "storage-error"
                ELSE IF failedDueToMistakes THEN "try-again"
                ELSE "level-completed"
    /\ timers' = IF ok1 THEN Schedule(rest, NavTimer) ELSE rest
    /\ emitted' = IF env.live
                  THEN Append(emitted,
                           [failed |-> failedDueToMistakes,
                            high_score |-> FinalScore(failedDueToMistakes, env.score),
                            stored |-> ok1,
                            unlock |-> IF ~(ok1 /\ UnlocksNext(failedDueToMistakes)) THEN "none"
                                       ELSE IF ok2 THEN "accepted" ELSE "rejected"])
                  ELSE emitted

\* the timer callback () => nextQuestion()
nextQuestion(i) ==
    /\ IsDue(i)
    /\ timers[i].kind = "next"
    /\ LET env == timers[i].env
           rest == RemoveAt(timers, i)
       IN  IF HasNextQuestion(env.idx, QCount(env.level))
           THEN /\ currentQuestionIndex' = IF env.live THEN env.idx + 1 ELSE currentQuestionIndex
                /\ selectedOption' = IF env.live THEN NULL ELSE selectedOption
                /\ evalsHere' = IF env.live /\ env.idx + 1 # currentQuestionIndex
                                THEN 0 ELSE evalsHere
                /\ timers' = rest
                /\ UNCHANGED <<progress, toast, emitted>>
           ELSE /\ \E ok1 \in BOOLEAN, ok2 \in BOOLEAN : endQuiz(env, FALSE, ok1, ok2, rest)
                /\ UNCHANGED <<currentQuestionIndex, selectedOption, evalsHere>>
    /\ speech' = SpeechAfterCallback
    /\ UNCHANGED <<page, progressView, levelNumber, score, mistakes, isListening,
                   inputs, nOk, nBad>>
    /\ UNCHANGED matchVars
    /\ UNCHANGED dbVars

\* the timer callback () => endQuiz(true)
EndQuizFailed(i) ==
    /\ IsDue(i)
    /\ timers[i].kind = "end"
    /\ \E ok1 \in BOOLEAN, ok2 \in BOOLEAN :
           endQuiz(timers[i].env, TRUE, ok1, ok2, RemoveAt(timers, i))
    /\ speech' = SpeechAfterCallback
    /\ UNCHANGED <<page, progressView, levelNumber, quizState, inputs,
                   nOk, nBad, evalsHere>>
    /\ UNCHANGED matchVars
    /\ UNCHANGED dbVars

(* ---------------------------------------------------------------------- *)
(* Navigation                                                              *)
(* ---------------------------------------------------------------------- *)

\* QuizPage is created for /quiz/l and fetchQuizData has loaded its questions
MountQuiz(l) ==
    /\ inputs < MaxInputs
    /\ inputs' = inputs + 1
    /\ progressView' = NULL
    /\ toast' = "none"
    /\ page' = "quiz"
    /\ levelNumber' = l
    /\ currentQuestionIndex' = 0
    /\ score' = 0
    /\ mistakes' = 0
    /\ selectedOption' = NULL
    /\ isListening' = FALSE
    /\ nOk' = 0
    /\ nBad' = 0
    /\ evalsHere' = 0
    /\ emitted' = <<>>

\* /levels is shown: a mounted QuizPage is unmounted (its timers are not
\* cleared; the effect cleanup stops the recogniser, which may still deliver)
\* and LevelSelectionPage fetches the progress rows
ShowLevels ==
    /\ page' = "levels"
    /\ levelNumber' = 0
    /\ currentQuestionIndex' = 0
    /\ score' = 0
    /\ mistakes' = 0
    /\ selectedOption' = NULL
    /\ isListening' = FALSE
    /\ nOk' = 0
    /\ nBad' = 0
    /\ evalsHere' = 0
    /\ emitted' = <<>>
    /\ progressView' = progress
    /\ toast' = "none"
    /\ UNCHANGED inputs

\* handleLevelClick of LevelSelectionPage
handleLevelClick(l) ==
    /\ page = "levels"
    /\ l \in Levels
    /\ IF progressView[l].status = "locked"
       THEN /\ toast' = "locked"
            /\ UNCHANGED <<page, progressView, levelNumber, quizState, inputs, hist>>
       ELSE MountQuiz(l)
    /\ UNCHANGED <<progress, speech, timers>>
    /\ UNCHANGED matchVars
    /\ UNCHANGED dbVars

\* the address /quiz/l is opened in the browser: the application is loaded
\* anew (no timer or recogniser survives); the route only requires a session.
\* fetchQuizData navigates to /levels when no level has that number
OpenQuizUrl(l) ==
    /\ l \in 1..(NumLevels + 1)
    /\ timers' = <<>>
    /\ speech' = IdleSpeech
    /\ IF l \in Levels
       THEN MountQuiz(l)
       ELSE /\ toast' = "load-error"
            /\ page' = "levels"
            /\ levelNumber' = 0
            /\ currentQuestionIndex' = 0
            /\ score' = 0
            /\ mistakes' = 0
            /\ selectedOption' = NULL
            /\ isListening' = FALSE
            /\ nOk' = 0
            /\ nBad' = 0
            /\ evalsHere' = 0
            /\ emitted' = <<>>
            /\ progressView' = progress
            /\ UNCHANGED inputs
    /\ UNCHANGED progress
    /\ UNCHANGED matchVars
    /\ UNCHANGED dbVars

\* the button "Back to Levels" of QuizPage
BackToLevels ==
    /\ page = "quiz"
    /\ ShowLevels
    /\ timers' = DetachTimers(timers)
    /\ speech' = [speech EXCEPT !.env = Detach(@)]
    /\ UNCHANGED progress
    /\ UNCHANGED matchVars
    /\ UNCHANGED dbVars

\* the timer callback () => navigate('/levels') scheduled by endQuiz
NavigateToLevels(i) ==
    /\ IsDue(i)
    /\ timers[i].kind = "nav"
    /\ IF page = "quiz"
       THEN /\ ShowLevels
            /\ timers' = DetachTimers(RemoveAt(timers, i))
            /\ speech' = [SpeechAfterCallback EXCEPT !.env = Detach(@)]
       ELSE /\ timers' = RemoveAt(timers, i)
            /\ speech' = SpeechAfterCallback
            /\ UNCHANGED <<page, levelNumber, quizState, inputs, hist, progressView, toast>>
    /\ UNCHANGED progress
    /\ UNCHANGED matchVars
    /\ UNCHANGED dbVars

\* the clock ticks: no pending callback is fresh any more; onend follows
\* onresult and onerror within the tick
Tick ==
    /\ \E i \in 1..Len(timers) : timers[i].fresh
    /\ speech.st # "delivered"
    /\ timers' = [i \in 1..Len(timers) |-> [timers[i] EXCEPT !.fresh = FALSE]]
    /\ UNCHANGED <<page, progress, progressView, levelNumber, quizState, speech,
                   toast, inputs, hist>>
    /\ UNCHANGED matchVars
    /\ UNCHANGED dbVars

Options == {Menu, Bill, Chef}

Next ==
    \/ \E l \in Levels : handleLevelClick(l)
    \/ \E l \in 1..(NumLevels + 1) : OpenQuizUrl(l)
    \/ \E option \in Options : ClickOption(option)
    \/ startListening
    \/ \E spokenText \in Utterances : handleSpeechResult(spokenText)
    \/ SpeechError
    \/ SpeechEnd
    \/ \E i \in 1..Len(timers) : nextQuestion(i)
    \/ \E i \in 1..Len(timers) : EndQuizFailed(i)
    \/ \E i \in 1..Len(timers) : NavigateToLevels(i)
    \/ BackToLevels
    \/ Tick

Spec == Init /\ [][Next]_vars

TypeOK ==
    /\ page \in {"levels", "quiz"}
    /\ levelNumber \in 0..NumLevels
    /\ currentQuestionIndex \in 0..MaxQuestions
    /\ score \in 0..MaxInputs
    /\ mistakes \in 0..MaxInputs
    /\ isListening \in BOOLEAN
    /\ \A l \in Levels : progress[l].status \in {"locked", "unlocked", "completed"}

(* ---------------------------------------------------------------------- *)
(* Properties                                                              *)
(* ---------------------------------------------------------------------- *)

Last(seq) == seq[Len(seq)]

\* the number of questions of the mounted session's level
NumQuestions == QCount(levelNumber)

\* a pending callback of the mounted session will run endQuiz(true)
FailScheduled ==
    \E i \in 1..Len(timers) : timers[i].env.live /\ timers[i].kind = "end"

\* a pending callback of the mounted session is nextQuestion of the render
\* that showed question idx
NextScheduled(seq, idx) ==
    \E i \in 1..Len(seq) :
        seq[i].env.live /\ seq[i].kind = "next" /\ seq[i].env.idx = idx

\* C1: a session in which every one of the N questions was answered
\* correctly and that ran endQuiz(false) sent high_score = N.
C1_AllCorrectScoresN ==
    \A k \in 1..Len(emitted) :
        (page = "quiz" /\ ~emitted[k].failed /\ nBad = 0 /\ nOk = NumQuestions)
            => emitted[k].high_score = NumQuestions

\* C2: once the first three answers of a session were evaluated and all were
\* wrong, endQuiz(true) is scheduled or has run, and every outcome of the
\* session is FailedByMistakes with score 0 (never Completed).
C2_ThreeWrongFail ==
    (page = "quiz" /\ nOk = 0 /\ nBad >= MistakeLimit)
        => /\ FailScheduled \/ \E k \in 1..Len(emitted) : emitted[k].failed
           /\ \A k \in 1..Len(emitted) : emitted[k].failed /\ emitted[k].high_score = 0

\* C3: every run of endQuiz(true), whatever the score of its render, sends
\* high_score 0, and when the storage accepts the update the level's record
\* holds status 'unlocked' and high_score 0.
C3_FailedScoreZero ==
    [][\A i \in 1..Len(timers) :
          EndQuizFailed(i) =>
              \/ toast' = "storage-error" /\ progress' = progress
              \/ /\ toast' = "try-again"
                 /\ progress'[timers[i].env.level] = [status |-> "unlocked", high_score |-> 0]
                 /\ timers[i].env.live => Last(emitted').high_score = 0]_vars

\* C3 witness: on the 4-question level one answer was correct before the
\* third wrong one; endQuiz(true) ran and the stored score is 0
C3_Witness ==
    /\ page = "quiz"
    /\ NumQuestions > MistakeLimit
    /\ nOk >= 1
    /\ nBad = MistakeLimit
    /\ score >= 1
    /\ Len(emitted) = 1
    /\ emitted[1].failed
    /\ emitted[1].stored
    /\ progress[levelNumber] = [status |-> "unlocked", high_score |-> 0]

\* C4: endQuiz runs at most once in a session (so never both as
\* endQuiz(true) and endQuiz(false)).
C4_OneOutcome == Len(emitted) <= 1

\* C5: at most one answer is evaluated while one question is presented.
C5_OneAnswerPerQuestion == evalsHere <= 1

\* C6: while the mounted session is terminal (endQuiz scheduled or run) no
\* step evaluates an answer, and score, mistakes, question index and the
\* emitted outcomes change only by endQuiz running or the page being left.
C6_TerminalRejects ==
    [][(Terminal /\ page' = "quiz" /\ ~\E l \in 1..(NumLevels + 1) : OpenQuizUrl(l))
          => /\ nOk' = nOk
             /\ nBad' = nBad
             /\ score' = score
             /\ mistakes' = mistakes]_vars

\* this callback is nextQuestion of a render that showed the last question,
\* so running it runs endQuiz(false)
Completes(timer) ==
    /\ timer.kind = "next"
    /\ ~HasNextQuestion(timer.env.idx, QCount(timer.env.level))

\* C7: a run of endQuiz on level L writes the record of level L+1 only as
\* endQuiz(false): endQuiz(true) leaves the record as it was, and
\* endQuiz(false) changes nothing but its status, which is 'unlocked' once
\* the storage has accepted the update. No other step changes a record, and a
\* run of endQuiz changes no record but those of its level and the next.
C7_UnlockOnlyOnCompleted ==
    [][/\ \A i \in 1..Len(timers) :
            LET next == timers[i].env.level + 1 IN
            next \in Levels =>
                /\ EndQuizFailed(i) => progress'[next] = progress[next]
                /\ (nextQuestion(i) /\ Completes(timers[i])) =>
                      /\ progress'[next].high_score = progress[next].high_score
                      /\ progress'[next].status \in {progress[next].status, "unlocked"}
                      /\ (timers[i].env.live /\ Last(emitted').unlock = "accepted")
                            => progress'[next].status = "unlocked"
                      /\ (timers[i].env.live /\ Last(emitted').unlock # "accepted")
                            => progress'[next] = progress[next]
       /\ \A l \in Levels :
            progress'[l] # progress[l] =>
                \E i \in 1..Len(timers) :
                    \/ EndQuizFailed(i) /\ timers[i].env.level = l
                    \/ /\ nextQuestion(i)
                       /\ Completes(timers[i])
                       /\ timers[i].env.level \in {l, l - 1}]_vars

\* C7 witness: a first session on level 1 ended Completed and the storage
\* accepted both updates: level 2, locked since sign-up, is now unlocked
C7_Witness ==
    /\ page = "quiz"
    /\ levelNumber = 1
    /\ Len(emitted) = 1
    /\ ~emitted[1].failed
    /\ emitted[1].unlock = "accepted"
    /\ progress[1].status = "completed"
    /\ progress[2] = [status |-> "unlocked", high_score |-> 0]
    /\ progress[3].status = "locked"

\* C8: a run of endQuiz(false) on level L leaves the status of level L+1 as
\* it was when that status is already 'unlocked' or 'completed'.
C8_UnlockNeverDowngrades ==
    [][\A i \in 1..Len(timers) :
          LET next == timers[i].env.level + 1 IN
          (/\ next \in Levels
           /\ nextQuestion(i)
           /\ Completes(timers[i])
           /\ progress[next].status \in {"unlocked", "completed"})
              => progress'[next].status = progress[next].status]_vars

\* C9: a step that evaluates an answer as correct in a session that is not
\* terminal adds exactly 1 to score, leaves mistakes and the question index,
\* and schedules nextQuestion of the presented question (which shows the
\* next question or, on the last one, runs endQuiz(false)).
C9_CorrectAnswer ==
    [][(page = "quiz" /\ ~Terminal /\ nOk' = nOk + 1)
          => /\ score' = score + 1
             /\ mistakes' = mistakes
             /\ currentQuestionIndex' = currentQuestionIndex
             /\ NextScheduled(timers', currentQuestionIndex)]_vars

\* C10: a step that evaluates an answer as incorrect in a session that is
\* not terminal adds exactly 1 to mistakes and leaves score; when mistakes
\* reaches the limit endQuiz(true) is scheduled, otherwise nextQuestion of
\* the presented question is.
C10_IncorrectAnswer ==
    [][(page = "quiz" /\ ~Terminal /\ nBad' = nBad + 1)
          => /\ mistakes' = mistakes + 1
             /\ score' = score
             /\ currentQuestionIndex' = currentQuestionIndex
             /\ IF ReachedLimit(mistakes')
                   THEN \E i \in 1..Len(timers') :
                           timers'[i].env.live /\ timers'[i].kind = "end"
                   ELSE NextScheduled(timers', currentQuestionIndex)]_vars

\* this step opens a quiz page anew or leaves it
LeavesSession == page' # "quiz" \/ \E l \in 1..(NumLevels + 1) : OpenQuizUrl(l)

\* C11: in a session mistakes never exceeds the limit, and once mistakes has
\* reached the limit no further answer is evaluated in that session.
C11_MistakesAtMostLimit ==
    [][/\ page' = "quiz" => mistakes' <= MistakeLimit
       /\ (page = "quiz" /\ ReachedLimit(mistakes) /\ ~LeavesSession)
             => nOk' = nOk /\ nBad' = nBad]_vars

\* C12: while a session is mounted and not terminal the question index is
\* below the number of questions of its level.
C12_IndexInRange ==
    (page = "quiz" /\ ~Terminal)
        => currentQuestionIndex >= 0 /\ currentQuestionIndex < NumQuestions

\* C13: within a session every step leaves the question index or raises it
\* by exactly 1.
C13_IndexMonotone ==
    [][(page = "quiz" /\ ~LeavesSession)
          => currentQuestionIndex' \in {currentQuestionIndex, currentQuestionIndex + 1}]_vars

\* C14: no quiz page is mounted for a level without questions.
C14_EmptyLevelFails == page = "quiz" => NumQuestions > 0

(* ---------------------------------------------------------------------- *)
(* findBestMatch on its own                                                *)
(* ---------------------------------------------------------------------- *)

\* transcripts: "menu", " Bill ", "menus", "me", "m", "may new", "", "  ",
\* "abcdefghxyz"
TestUtterances ==
    { <<"m", "e", "n", "u">>,
      <<" ", "B", "i", "l", "l", " ">>,
      <<"m", "e", "n", "u", "s">>,
      <<"m", "e">>,
      <<"m">>,
      <<"m", "a", "y", " ", "n", "e", "w">>,
      <<>>,
      <<" ", " ">>,
      <<"a", "b", "c", "d", "e", "f", "g", "h", "x", "y", "z">> }

\* option lists: two question rows of the quiz, lists whose options are equal
\* after normalisation, a list with a repeated option, the options of
\* addQuestion before they are filled in, a list with a white-space option,
\* and lists with an option at similarity 6/7 and 7/10 to a transcript
TestOptionLists ==
    { <<Menu, Bill>>,
      <<Chef, Menu>>,
      <<<<"m", "e", "n", "u">>, Menu, Bill>>,
      <<Bill, Menu, <<"m", "e", "n", "u", " ">>>>,
      <<Menu, Menu>>,
      <<<<>>, <<>>, <<>>, <<>>>>,
      <<<<" ">>, Menu>>,
      <<<<"m", "e", "n", "u", "s">>, Menu>>,
      <<Bill, <<"a", "b", "c", "d", "e", "f", "g", "h", "p", "q", "r">>>> }

\* before findBestMatch(heard, offered) is called
MatchInit ==
    /\ heard \in TestUtterances
    /\ offered \in TestOptionLists
    /\ matched = [done |-> FALSE, result |-> NULL]
    /\ editor = ClosedEditor
    /\ questionsTable = SeededQuestions
    /\ AuthSeeded
    /\ page = "levels"
    /\ progress = InitialProgress
    /\ progressView = progress
    /\ levelNumber = 0
    /\ currentQuestionIndex = 0
    /\ score = 0
    /\ mistakes = 0
    /\ selectedOption = NULL
    /\ isListening = FALSE
    /\ speech = IdleSpeech
    /\ timers = <<>>
    /\ toast = "none"
    /\ inputs = 0
    /\ nOk = 0
    /\ nBad = 0
    /\ evalsHere = 0
    /\ emitted = <<>>

\* const matchResult = findBestMatch(spokenText, currentQuestion.options)
CallFindBestMatch ==
    /\ ~matched.done
    /\ matched' = [done |-> TRUE, result |-> findBestMatch(heard, offered)]
    /\ UNCHANGED <<page, progress, progressView, levelNumber, quizState, speech,
                   timers, toast, inputs, hist, heard, offered>>
    /\ UNCHANGED dbVars

MatchNext == CallFindBestMatch

MatchSpec == MatchInit /\ [][MatchNext]_vars

\* similarity of the transcript to the k-th option, both lower-cased and
\* trimmed, as a fraction <<numerator, denominator>>
SimilarityTo(k) ==
    compareTwoStrings(trim(toLowerCase(heard)), trim(toLowerCase(offered[k])))

\* similarity to the k-th option is at least 7/10
Confident(k) ==
    SimilarityTo(k)[1] * ThresholdDen >= ThresholdNum * SimilarityTo(k)[2]

\* similarity to the j-th option is strictly above that to the k-th
Closer(j, k) ==
    SimilarityTo(j)[1] * SimilarityTo(k)[2] > SimilarityTo(k)[1] * SimilarityTo(j)[2]

\* the k-th option is the only one the transcript is confidently similar to
OnlyConfident(k) ==
    /\ Confident(k)
    /\ \A j \in 1..Len(offered) : offered[j] # offered[k] => ~Confident(j)

\* C15: when the transcript's normalised similarity is at least 0.7 to one
\* option and below 0.7 to every other option, findBestMatch returns that
\* option.
C15_UniqueConfidentOption ==
    matched.done =>
        \A k \in 1..Len(offered) :
            OnlyConfident(k) => matched.result = Some(offered[k])

\* a transcript that is close to, but different from, exactly one option was
\* matched to it while another option was on offer
C15_Witness ==
    /\ matched.done
    /\ \E k \in 1..Len(offered) :
          /\ OnlyConfident(k)
          /\ SimilarityTo(k)[1] < SimilarityTo(k)[2]
          /\ \E j \in 1..Len(offered) : offered[j] # offered[k]
          /\ matched.result = Some(offered[k])

\* C16: findBestMatch returns no match when the highest similarity is below
\* 0.7, whatever the closest option is, and a similarity of exactly 0.7 is
\* accepted.
C16_BelowThresholdNoMatch ==
    matched.done =>
        /\ (\A k \in 1..Len(offered) : ~Confident(k)) => matched.result = NULL
        /\ (\E k \in 1..Len(offered) :
                SimilarityTo(k)[1] * ThresholdDen = ThresholdNum * SimilarityTo(k)[2])
              => matched.result # NULL

\* a transcript with a closest option at similarity 1/2 got no match, and one
\* at exactly 7/10 is on record as matched
C16_Witness ==
    /\ matched.done
    /\ \/ /\ \A k \in 1..Len(offered) : ~Confident(k)
          /\ \E k \in 1..Len(offered) : SimilarityTo(k)[1] * 2 = SimilarityTo(k)[2]
          /\ matched.result = NULL
       \/ /\ \E k \in 1..Len(offered) :
                /\ SimilarityTo(k)[1] * ThresholdDen = ThresholdNum * SimilarityTo(k)[2]
                /\ matched.result = Some(offered[k])

\* position of the first option that no other option is closer than
FirstClosest ==
    CHOOSE k \in 1..Len(offered) :
        /\ \A j \in 1..Len(offered) : ~Closer(j, k)
        /\ \A j \in 1..(k - 1) : Closer(k, j)

\* C17: when several options share the highest similarity and it is at least
\* 0.7, findBestMatch returns the one that comes first in the option order,
\* also when the list holds the same text twice.
C17_TieFirstInOrder ==
    (matched.done /\ matched.result # NULL)
        => matched.result = Some(offered[FirstClosest])

\* two options of different text tie at the top and the earlier one was
\* returned
C17_Witness ==
    /\ matched.done
    /\ \E j \in 1..Len(offered) :
          /\ j > FirstClosest
          /\ ~Closer(FirstClosest, j)
          /\ offered[j] # offered[FirstClosest]
    /\ Confident(FirstClosest)
    /\ matched.result = Some(offered[FirstClosest])

\* C18: an empty or white-space-only transcript gets no match from every
\* option list, also from one that holds an empty or white-space-only option.
C18_EmptyUtteranceNoMatch ==
    (matched.done /\ trim(heard) = <<>>) => matched.result = NULL

\* no option of the question of render env is at similarity 7/10 or more to
\* the transcript
NoConfidentOption(spokenText, env) ==
    \A k \in 1..Len(QuestionOf(env).options) :
        LET similarity == compareTwoStrings(trim(toLowerCase(spokenText)),
                              trim(toLowerCase(QuestionOf(env).options[k])))
        IN  similarity[1] * ThresholdDen < ThresholdNum * similarity[2]

\* a question card is rendered and none of its options has been selected
QuestionOpen == QuestionShown /\ selectedOption = NULL

\* every option button of the rendered question accepts a click
AnswerableByClick ==
    \A k \in 1..Len(QuestionOf(CurrentRender).options) :
        ENABLED ClickOption(QuestionOf(CurrentRender).options[k])

\* the speech button accepts a press
AnswerableBySpeech == ENABLED startListening

\* the recogniser has delivered a transcript that matched no option of the
\* rendered question, and has not ended yet
AfterNoMatch ==
    /\ QuestionOpen
    /\ isListening
    /\ speech.st = "delivered"
    /\ speech.env = CurrentRender

\* C19: a speech result for which findBestMatch reports no match leaves score,
\* mistakes, question index and selected option as they were and schedules no
\* timer; a question that was open stays open to a click, and to speech as
\* soon as the recogniser has ended.
C19_NoMatchLeavesSession ==
    [][/\ (\E spokenText \in Utterances :
              /\ handleSpeechResult(spokenText)
              /\ NoConfidentOption(spokenText, speech.env))
          => /\ UNCHANGED <<score, mistakes, currentQuestionIndex, selectedOption, timers>>
             /\ (QuestionOpen /\ inputs < MaxInputs) => AnswerableByClick'
       /\ (AfterNoMatch /\ SpeechEnd /\ inputs < MaxInputs) => AnswerableBySpeech'
      ]_vars

\* a transcript that matched no option has been delivered for an open
\* question, and the question is still open
C19_Witness == AfterNoMatch /\ inputs < MaxInputs /\ AnswerableByClick

\* this step is a run of endQuiz of the mounted session whose update of the
\* level's record was rejected
WriteRejected ==
    /\ Len(emitted') = Len(emitted) + 1
    /\ ~Last(emitted').stored

\* the pending callbacks () => navigate('/levels')
NavCount(seq) == Cardinality({i \in 1..Len(seq) : seq[i].kind = "nav"})

\* the session can still come to run endQuiz: a run is pending, or an answer
\* can still arrive by click or from the recogniser
WriteCanBeRetried ==
    \/ EndScheduled
    \/ QuestionOpen
    \/ speech.st = "listening"

\* C20: when the update of the level's record is rejected, the error is
\* shown, no record changes (the next level is not unlocked), the user stays
\* on the quiz page and no navigation is scheduled, and the session can run
\* the write again.
C20_RejectedWriteHeld ==
    [][WriteRejected
          => /\ toast' = "storage-error"
             /\ progress' = progress
             /\ page' = "quiz"
             /\ NavCount(timers') = NavCount(timers)
             /\ WriteCanBeRetried']_vars

\* this step is a run of endQuiz(false) of the mounted session whose update
\* of the next level's record was rejected
UnlockRejected ==
    /\ Len(emitted') = Len(emitted) + 1
    /\ Last(emitted').unlock = "rejected"

\* C21: a run of endQuiz whose write of the next level's record is rejected
\* does not report 'Level completed'; it shows the failure.
C21_UnlockFailureShown ==
    [][UnlockRejected => toast' = "storage-error"]_vars

\* C23: a quiz session is mounted only for a level whose progress record is
\* 'unlocked' or 'completed', and the only change ever made to a 'locked'
\* record is its unlock: no outcome is written to it.
C23_LockedLevelNotPlayed ==
    [][/\ page' = "quiz" => progress'[levelNumber'].status # "locked"
       /\ \A l \in Levels :
             (progress[l].status = "locked" /\ progress'[l] # progress[l])
                 => progress'[l] = [progress[l] EXCEPT !.status = "unlocked"]]_vars

\* this step is a run of endQuiz(false) of the mounted session, in which
\* every question was answered once and fewer than three answers were wrong
EndsCompleted ==
    /\ Len(emitted') = Len(emitted) + 1
    /\ ~Last(emitted').failed
    /\ nOk + nBad = NumQuestions
    /\ nBad < MistakeLimit

\* C24: the high_score a Completed session sends is the number of its
\* correct answers, which is the score shown at the last question.
C24_CompletedScoreIsCorrectCount ==
    [][EndsCompleted
          => /\ Last(emitted').high_score = nOk
             /\ Last(emitted').high_score = score]_vars

\* the i-th pending callback runs endQuiz for level l in this step
RunsEndQuizOn(i, l) ==
    /\ timers[i].env.level = l
    /\ \/ EndQuizFailed(i)
       \/ nextQuestion(i) /\ Completes(timers[i])

\* C25: a run of endQuiz on a level whose record is 'completed' leaves the
\* status 'completed', also when the session failed by mistakes.
C25_CompletedStaysCompleted ==
    [][\A l \in Levels : \A i \in 1..Len(timers) :
          (RunsEndQuizOn(i, l) /\ progress[l].status = "completed")
              => progress'[l].status = "completed"]_vars

\* C26: no step lowers the high_score of a progress record.
C26_HighScoreNeverLowered ==
    [][\A l \in Levels : progress'[l].high_score >= progress[l].high_score]_vars

\* this step delivers a transcript to the mounted session that started the
\* recogniser, and the transcript is evaluated as an answer
SpeechEvaluated ==
    /\ page = "quiz"
    /\ speech.env.live
    /\ \E spokenText \in Utterances : handleSpeechResult(spokenText)
    /\ nOk' + nBad' = nOk + nBad + 1

\* C27: a transcript that is evaluated is evaluated for the question on
\* display, and the evaluation adds 1 to the score or to the mistakes on
\* display and leaves the other.
C27_SpeechScoredOnCurrentState ==
    [][SpeechEvaluated
          => /\ speech.env.idx = currentQuestionIndex
             /\ nOk' = nOk + 1 => (score' = score + 1 /\ mistakes' = mistakes)
             /\ nBad' = nBad + 1 => (mistakes' = mistakes + 1 /\ score' = score)]_vars

\* the answers evaluated in the mounted session
Evaluated == nOk + nBad

\* C28: in a session on a level with N >= 1 questions at most N answers are
\* evaluated, every evaluated answer but the latest has advanced the question
\* index by one, and until endQuiz has run the session can go on: a question
\* is open or a callback of the session is pending.
C28_SessionTerminates ==
    (page = "quiz" /\ NumQuestions >= 1)
        => /\ Evaluated <= NumQuestions
           /\ currentQuestionIndex <= Evaluated
           /\ Evaluated <= currentQuestionIndex + 1
           /\ emitted = <<>>
                 => (QuestionOpen \/ \E i \in 1..Len(timers) : timers[i].env.live)

(* ---------------------------------------------------------------------- *)
(* LevelEditPage and the table questions                                   *)
(* ---------------------------------------------------------------------- *)

EmptyText == <<>>

\* what the administrator types into an option field
AdminTexts == {EmptyText, Menu, Bill}

\* addQuestion: the new question of the form; id 0 stands for no id
NewQuestion ==
    [id |-> 0, question_text |-> EmptyText, image_url |-> EmptyText,
     options |-> <<EmptyText, EmptyText, EmptyText, EmptyText>>,
     correct_answer |-> EmptyText]

\* CONSTRAINT options_length CHECK (array_length(options, 1) >= 2);
\* array_length of an empty array is null, which does not violate a check
OptionsLengthCheck(options) == options = <<>> \/ Len(options) >= 2

\* variant: the table without the constraint correct_answer_in_options
CorrectAnswerUnchecked(options, correct_answer) == TRUE

\* CONSTRAINT correct_answer_in_options CHECK (correct_answer = ANY(options))
CorrectAnswerInOptions(options, correct_answer) ==
    \E k \in 1..Len(options) : options[k] = correct_answer

\* the table accepts the values of question
RowAccepted(question) ==
    /\ OptionsLengthCheck(question.options)
    /\ CorrectAnswerInOptions(question.options, question.correct_answer)

\* handleSaveLevel: the questions it passes over
Skipped(question) ==
    \/ question.question_text = EmptyText
    \/ question.image_url = EmptyText
    \/ Len(question.options) < 2
    \/ question.correct_answer = EmptyText

\* gen_random_uuid(): an id no row has
NextId(table) ==
    1 + (CHOOSE m \in 0..Len(table) + 2 :
            /\ \A i \in 1..Len(table) : table[i].id <= m
            /\ m = 0 \/ \E i \in 1..Len(table) : table[i].id = m)

\* handleSaveLevel: the loop over the questions of the form; oks tells for
\* each question whether the storage accepts the request as such
RECURSIVE SaveQuestions(_, _, _)
SaveQuestions(table, questions, oks) ==
    IF questions = <<>> THEN table
    ELSE LET question == Head(questions)
             stored == Head(oks) /\ RowAccepted(question)
             next == IF Skipped(question) \/ ~stored THEN table
                     ELSE IF question.id # 0
                     THEN [i \in 1..Len(table) |->
                              IF table[i].id = question.id THEN question ELSE table[i]]
                     ELSE Append(table, [question EXCEPT !.id = NextId(table)])
         IN  SaveQuestions(next, Tail(questions), Tail(oks))

\* the questions of a save that a constraint of the table refused
Refused(questions, oks) ==
    Cardinality({i \in 1..Len(questions) :
                    ~Skipped(questions[i]) /\ oks[i] /\ ~RowAccepted(questions[i])})

quizVars ==
    <<page, progress, progressView, levelNumber, currentQuestionIndex, score,
      mistakes, selectedOption, isListening, speech, timers, toast, nOk, nBad,
      evalsHere, emitted>>

\* LevelEditPage is mounted for the level: fetchLevel
fetchLevel ==
    /\ ~editor.open
    /\ \E ok \in BOOLEAN :
          editor' = [open |-> TRUE,
                     questions |-> IF ok THEN questionsTable ELSE <<>>,
                     refused |-> 0]
    /\ UNCHANGED <<questionsTable, inputs, quizVars, matchVars, authVars>>

\* the button Back of LevelEditPage
LeaveEditor ==
    /\ editor.open
    /\ editor' = ClosedEditor
    /\ UNCHANGED <<questionsTable, inputs, quizVars, matchVars, authVars>>

\* the button Add Question
addQuestion ==
    /\ editor.open
    /\ inputs < MaxInputs
    /\ inputs' = inputs + 1
    /\ editor' = [editor EXCEPT !.questions = Append(@, NewQuestion)]
    /\ UNCHANGED <<questionsTable, quizVars, matchVars, authVars>>

\* updateQuestion(index, field, value) for the text fields
updateQuestion(index, field, value) ==
    /\ editor.open
    /\ index \in 1..Len(editor.questions)
    /\ inputs < MaxInputs
    /\ inputs' = inputs + 1
    /\ editor' = [editor EXCEPT !.questions[index][field] = value]
    /\ editor' # editor
    /\ UNCHANGED <<questionsTable, quizVars, matchVars, authVars>>

\* the radio button next to option optionIndex:
\* updateQuestion(index, 'correct_answer', option)
selectCorrectAnswer(index, optionIndex) ==
    /\ index \in 1..Len(editor.questions)
    /\ optionIndex \in 1..Len(editor.questions[index].options)
    /\ updateQuestion(index, "correct_answer", editor.questions[index].options[optionIndex])

\* updateQuestionOption(qIndex, optionIndex, value)
updateQuestionOption(qIndex, optionIndex, value) ==
    /\ editor.open
    /\ qIndex \in 1..Len(editor.questions)
    /\ optionIndex \in 1..Len(editor.questions[qIndex].options)
    /\ inputs < MaxInputs
    /\ inputs' = inputs + 1
    /\ editor' = [editor EXCEPT !.questions[qIndex].options[optionIndex] = value]
    /\ editor' # editor
    /\ UNCHANGED <<questionsTable, quizVars, matchVars, authVars>>

\* deleteQuestion(index)
deleteQuestion(index) ==
    /\ editor.open
    /\ index \in 1..Len(editor.questions)
    /\ LET question == editor.questions[index]
           deleted == [editor EXCEPT !.questions = RemoveAt(@, index)]
       IN  IF question.id # 0
           THEN \E ok \in BOOLEAN :
                   IF ok
                   THEN /\ questionsTable' =
                              SelectSeq(questionsTable, LAMBDA row : row.id # question.id)
                        /\ editor' = deleted
                   ELSE UNCHANGED <<editor, questionsTable>>
           ELSE /\ editor' = deleted
                /\ UNCHANGED questionsTable
    /\ UNCHANGED <<inputs, quizVars, matchVars, authVars>>

\* handleSaveLevel of an existing level: the update of the level, then the
\* questions; on success navigate('/admin/levels')
handleSaveLevel ==
    /\ editor.open
    /\ \E levelOk \in BOOLEAN :
          IF ~levelOk THEN UNCHANGED <<editor, questionsTable>>
          ELSE \E oks \in [1..Len(editor.questions) -> BOOLEAN] :
                  /\ questionsTable' = SaveQuestions(questionsTable, editor.questions, oks)
                  /\ editor' = [ClosedEditor EXCEPT
                                   !.refused = Refused(editor.questions, oks)]
    /\ UNCHANGED <<inputs, quizVars, matchVars, authVars>>

\* the administrator is on /admin/levels
AdminInit ==
    /\ editor = ClosedEditor
    /\ questionsTable = SeededQuestions
    /\ AuthSeeded
    /\ heard = <<>>
    /\ offered = <<>>
    /\ matched = [done |-> FALSE, result |-> NULL]
    /\ page = "levels"
    /\ progress = InitialProgress
    /\ progressView = progress
    /\ levelNumber = 0
    /\ currentQuestionIndex = 0
    /\ score = 0
    /\ mistakes = 0
    /\ selectedOption = NULL
    /\ isListening = FALSE
    /\ speech = IdleSpeech
    /\ timers = <<>>
    /\ toast = "none"
    /\ inputs = 0
    /\ nOk = 0
    /\ nBad = 0
    /\ evalsHere = 0
    /\ emitted = <<>>

AdminNext ==
    \/ fetchLevel
    \/ LeaveEditor
    \/ addQuestion
    \/ \E index \in 1..Len(editor.questions) :
          \E field \in {"question_text", "image_url"}, value \in {EmptyText, Menu} :
              updateQuestion(index, field, value)
    \/ \E index \in 1..Len(editor.questions), optionIndex \in 1..4 :
          selectCorrectAnswer(index, optionIndex)
    \/ \E qIndex \in 1..Len(editor.questions), optionIndex \in 1..4, value \in AdminTexts :
          updateQuestionOption(qIndex, optionIndex, value)
    \/ \E index \in 1..Len(editor.questions) : deleteQuestion(index)
    \/ handleSaveLevel

AdminSpec == AdminInit /\ [][AdminNext]_vars

\* C22: every row of the table questions has at least two options and its
\* correct_answer among them, whatever the administrator has added, edited,
\* saved or deleted.
C22_CorrectAnswerAmongOptions ==
    \A i \in 1..Len(questionsTable) :
        /\ Len(questionsTable[i].options) >= 2
        /\ \E k \in 1..Len(questionsTable[i].options) :
              questionsTable[i].options[k] = questionsTable[i].correct_answer

\* a save has run with a question whose correct_answer was no longer among
\* its options, and the table refused it
C22_Witness == ~editor.open /\ editor.refused > 0

(* ---------------------------------------------------------------------- *)
(* Sign-up, roles and the row-level-security policies                      *)
(* ---------------------------------------------------------------------- *)

\* the ids of auth.users
UserIds == {"root", "ann", "bob"}

\* CREATE TYPE app_role AS ENUM ('student', 'admin')
Roles == {"student", "admin"}

\* usernames: "root", "ann", "bob" and "al"
Usernames == {Root, <<"a", "n", "n">>, <<"b", "o", "b">>, <<"a", "l">>}

\* has_role(_user_id, _role)
has_role(user_id, role) == <<user_id, role>> \in userRoles

\* is_admin(user_id)
is_admin(user_id) == has_role(user_id, "admin")

\* profiles: username UNIQUE, CHECK (char_length(username) >= 3)
UsernameAccepted(id, username) ==
    /\ Len(username) >= 3
    /\ \A other \in DOMAIN profiles : other # id => profiles[other] # username

\* variant of InitialStatus: every level starts locked
InitialStatusLocked(level_number) == "locked"

\* handle_new_user: CASE WHEN level_number = 1 THEN 'unlocked' ELSE 'locked' END
InitialStatus(level_number) == IF level_number = 1 THEN "unlocked" ELSE "locked"

\* handle_new_user: the rows of progress for the new user; high_score is the
\* column default 0
NewUserProgress(id) ==
    {[user_id |-> id, level_number |-> l, status |-> InitialStatus(l), high_score |-> 0] :
        l \in dbLevels}

\* variant of MayWriteRoles: a user may write the rows of user_roles that
\* carry the user's own id
MayWriteOwnRoles(actor, user_id) == actor = user_id

\* policies "Admins can insert / update / delete roles" of user_roles
MayWriteRoles(actor, user_id) == has_role(actor, "admin")

\* policies "Users can update their own profile", "Admins can update all profiles"
MayUpdateProfile(actor, id) == actor = id \/ is_admin(actor)

\* one request to the database is spent
SpendInput ==
    /\ inputs < MaxInputs
    /\ inputs' = inputs + 1

Refuse(actor, table) == refusedWrites' = refusedWrites \cup {<<actor, table>>}

\* a user signs up: the row of auth.users and the trigger handle_new_user in
\* one transaction
SignUp(id, username) ==
    /\ id \notin authUsers
    /\ SpendInput
    /\ IF UsernameAccepted(id, username)
       THEN /\ authUsers' = authUsers \cup {id}
            /\ profiles' = [u \in DOMAIN profiles \cup {id} |->
                               IF u = id THEN username ELSE profiles[u]]
            /\ userRoles' = userRoles \cup {<<id, "student">>}
            /\ dbProgress' = dbProgress \cup NewUserProgress(id)
            /\ UNCHANGED refusedWrites
       ELSE /\ Refuse(id, "auth.users")
            /\ UNCHANGED <<authUsers, profiles, userRoles, dbProgress>>
    /\ UNCHANGED <<dbLevels, editor, questionsTable, quizVars, matchVars>>

\* update profiles set username = .. where id = ..
UpdateProfile(actor, id, username) ==
    /\ actor \in authUsers
    /\ id \in authUsers
    /\ SpendInput
    /\ IF MayUpdateProfile(actor, id) /\ UsernameAccepted(id, username)
       THEN /\ profiles' = [profiles EXCEPT ![id] = username]
            /\ UNCHANGED refusedWrites
       ELSE /\ Refuse(actor, "profiles")
            /\ UNCHANGED profiles
    /\ UNCHANGED <<authUsers, userRoles, dbLevels, dbProgress, editor, questionsTable,
                   quizVars, matchVars>>

\* insert into user_roles (user_id, role)
InsertRole(actor, user_id, role) ==
    /\ actor \in authUsers
    /\ user_id \in authUsers
    /\ SpendInput
    /\ IF MayWriteRoles(actor, user_id) /\ <<user_id, role>> \notin userRoles
       THEN /\ userRoles' = userRoles \cup {<<user_id, role>>}
            /\ UNCHANGED refusedWrites
       ELSE /\ Refuse(actor, "user_roles")
            /\ UNCHANGED userRoles
    /\ UNCHANGED <<authUsers, profiles, dbLevels, dbProgress, editor, questionsTable,
                   quizVars, matchVars>>

\* update user_roles set role = .. where user_id = .. and role = ..
UpdateRole(actor, user_id, old, role) ==
    /\ actor \in authUsers
    /\ <<user_id, old>> \in userRoles
    /\ old # role
    /\ SpendInput
    /\ IF MayWriteRoles(actor, user_id) /\ <<user_id, role>> \notin userRoles
       THEN /\ userRoles' = (userRoles \ {<<user_id, old>>}) \cup {<<user_id, role>>}
            /\ UNCHANGED refusedWrites
       ELSE /\ Refuse(actor, "user_roles")
            /\ UNCHANGED userRoles
    /\ UNCHANGED <<authUsers, profiles, dbLevels, dbProgress, editor, questionsTable,
                   quizVars, matchVars>>

\* delete from user_roles where user_id = .. and role = ..
DeleteRole(actor, user_id, role) ==
    /\ actor \in authUsers
    /\ <<user_id, role>> \in userRoles
    /\ SpendInput
    /\ IF MayWriteRoles(actor, user_id)
       THEN /\ userRoles' = userRoles \ {<<user_id, role>>}
            /\ UNCHANGED refusedWrites
       ELSE /\ Refuse(actor, "user_roles")
            /\ UNCHANGED userRoles
    /\ UNCHANGED <<authUsers, profiles, dbLevels, dbProgress, editor, questionsTable,
                   quizVars, matchVars>>

\* insert into levels / delete from levels, policies "Admins can insert
\* levels", "Admins can delete levels"
WriteLevel(actor, level_number) ==
    /\ actor \in authUsers
    /\ SpendInput
    /\ IF is_admin(actor)
       THEN /\ dbLevels' = IF level_number \in dbLevels
                           THEN dbLevels \ {level_number}
                           ELSE dbLevels \cup {level_number}
            /\ UNCHANGED refusedWrites
       ELSE /\ Refuse(actor, "levels")
            /\ UNCHANGED dbLevels
    /\ UNCHANGED <<authUsers, userRoles, profiles, dbProgress, editor, questionsTable,
                   quizVars, matchVars>>

AuthInit ==
    /\ AuthSeeded
    /\ editor = ClosedEditor
    /\ questionsTable = SeededQuestions
    /\ heard = <<>>
    /\ offered = <<>>
    /\ matched = [done |-> FALSE, result |-> NULL]
    /\ page = "levels"
    /\ progress = InitialProgress
    /\ progressView = progress
    /\ levelNumber = 0
    /\ currentQuestionIndex = 0
    /\ score = 0
    /\ mistakes = 0
    /\ selectedOption = NULL
    /\ isListening = FALSE
    /\ speech = IdleSpeech
    /\ timers = <<>>
    /\ toast = "none"
    /\ inputs = 0
    /\ nOk = 0
    /\ nBad = 0
    /\ evalsHere = 0
    /\ emitted = <<>>

AuthNext ==
    \/ \E id \in UserIds, username \in Usernames : SignUp(id, username)
    \/ \E actor \in UserIds, id \in UserIds, username \in Usernames :
          UpdateProfile(actor, id, username)
    \/ \E actor \in UserIds, user_id \in UserIds, role \in Roles :
          InsertRole(actor, user_id, role)
    \/ \E actor \in UserIds, user_id \in UserIds, old \in Roles, role \in Roles :
          UpdateRole(actor, user_id, old, role)
    \/ \E actor \in UserIds, user_id \in UserIds, role \in Roles :
          DeleteRole(actor, user_id, role)
    \/ \E actor \in UserIds, level_number \in Levels : WriteLevel(actor, level_number)

AuthSpec == AuthInit /\ [][AuthNext]_vars

\* this step is a write to user_roles requested by a user who is an
\* administrator
RolesWrittenByAdmin ==
    \E actor \in UserIds :
        /\ is_admin(actor)
        /\ \E user_id \in UserIds, role \in Roles :
              \/ InsertRole(actor, user_id, role)
              \/ DeleteRole(actor, user_id, role)
              \/ \E old \in Roles : UpdateRole(actor, user_id, old, role)

\* C29: a user becomes an administrator only by a write to user_roles that
\* an administrator requests: no sign-up, profile update or role write of
\* users who are not administrators makes is_admin true for any of them.
C29_NoSelfPromotion ==
    [][\A id \in UserIds :
          (~is_admin(id) /\ is_admin(id)') => RolesWrittenByAdmin]_vars

\* a signed-up user who is a student and not an administrator has had a
\* write to user_roles refused
C29_Witness ==
    \E id \in authUsers :
        /\ has_role(id, "student")
        /\ ~is_admin(id)
        /\ <<id, "user_roles">> \in refusedWrites

\* the rows of progress of user id
ProgressOf(table, id) == {row \in table : row.user_id = id}

\* the rows a new user is to have: one for each level, level 1 unlocked
ExpectedProgress(id, levels) ==
    {[user_id |-> id, level_number |-> l,
      status |-> IF l = 1 THEN "unlocked" ELSE "locked", high_score |-> 0] : l \in levels}

\* C30: right after sign-up the new user has the role student and no other,
\* and one progress row for each level that exists, 'unlocked' for level 1
\* and 'locked' for the others, with high_score 0.
C30_NewUserState ==
    [][\A id \in UserIds :
          (id \notin authUsers /\ id \in authUsers')
              => /\ {role \in Roles : <<id, role>> \in userRoles'} = {"student"}
                 /\ ProgressOf(dbProgress', id) = ExpectedProgress(id, dbLevels')]_vars

\* a user has signed up while the levels were not the seeded ones, level 1
\* among them
C30_Witness ==
    \E id \in authUsers :
        /\ has_role(id, "student")
        /\ dbLevels # Levels
        /\ \E row \in dbProgress : row.user_id = id /\ row.status = "unlocked"
        /\ \E row \in dbProgress : row.user_id = id /\ row.status = "locked"
        /\ ProgressOf(dbProgress, id) = ExpectedProgress(id, dbLevels)

====
